---- MODULE Spec2Model ----
(***************************************************************************)
(* MinPQ (src/min_pq.py): a priority queue on a binary heap kept in a      *)
(* 1-indexed Python list, with its HeapIterator.                           *)
(*                                                                         *)
(* A Python list is a sequence: Python index i is position i + 1.          *)
(* None is the number 0; keys are drawn from 1..MaxKey.                    *)
(* Every operation is an operator returning the object after the call,     *)
(* the exception raised ("none" when the call returned) and the value      *)
(* returned.  An operation that raises keeps the assignments it made       *)
(* before the raise, as the Python object does.                            *)
(***************************************************************************)
EXTENDS Integers, Sequences, FiniteSets, TLC

\* ---- bounds ------------------------------------------------------------
\* keys are 1..MaxKey
MaxKey == 2
\* the queue holds at most MaxSize keys
MaxSize == 4
\* the same, where an iterator runs beside the queue (SpecIter)
MaxIterSize == 2

None == 0
Keys == 1..MaxKey
Comparators == {"None", "reverse_comparator"}

\* Ids of the object store: the queue under test, and the queue a
\* HeapIterator allocates for itself.
Main == 1
Fresh == 2
NoCopy == 0

\* What next() hands to its caller when del_min dies on its assertion.
Raised == -1

VARIABLES
    store,      \* object store: id -> MinPQ object [pq, n, comparator]
    it,         \* the HeapIterator in the caller's hands: [copy |-> id]
    debug,      \* Python's __debug__: FALSE under python -O (asserts skipped)
    last,       \* the last call: [op, arg, exc, ret]
    phase,      \* history (Spec): the calls so far are "new" none; on a queue
                \* constructed empty "ins" inserts only, "ext" inserts and then
                \* del_min only; "ext0" del_min only; else "other"
    expected,   \* history (Spec): keys at construction, plus insert calls,
                \* minus del_min calls that returned a key
    empty0,     \* history: the queue was constructed empty
    resized     \* history (Spec): what the last insert or del_min call did to
                \* the length of pq: "doubled", "halved" or "none"

vars == <<store, it, debug, last, phase, expected, empty0, resized>>

\* ---- Python lists ------------------------------------------------------
len(a) == Len(a)
item(a, i) == a[i + 1]
setitem(a, i, v) == [a EXCEPT ![i + 1] = v]
\* [None] * c
NoneList(c) == [i \in 1..c |-> None]

\* ---- MinPQ helpers -----------------------------------------------------
\* the comparator of the test: lambda a, b: b - a
reverse_comparator(a, b) == b - a

\* _greater: pq[i] > pq[j], through the comparator when there is one
_greater(o, i, j) ==
    IF o.comparator = "None"
    THEN item(o.pq, i) > item(o.pq, j)
    ELSE reverse_comparator(item(o.pq, i), item(o.pq, j)) > 0

\* _exch: swap pq[i] and pq[j]
_exch(o, i, j) ==
    [o EXCEPT !.pq = setitem(setitem(o.pq, i, item(o.pq, j)), j, item(o.pq, i))]

\* _swim: the body is `pass`
_swim(o, k) == o

\* _sink: the body is `pass`
_sink(o, k) == o

RECURSIVE _is_min_heap_ordered(_, _)
_is_min_heap_ordered(o, k) ==
    IF k > o.n THEN TRUE
    ELSE IF 2 * k <= o.n /\ _greater(o, k, 2 * k) THEN FALSE
    ELSE IF 2 * k + 1 <= o.n /\ _greater(o, k, 2 * k + 1) THEN FALSE
    ELSE _is_min_heap_ordered(o, 2 * k) /\ _is_min_heap_ordered(o, 2 * k + 1)

_is_min_heap(o) ==
    /\ \A i \in 1..o.n : item(o.pq, i) # None
    /\ \A i \in (o.n + 1)..(len(o.pq) - 1) : item(o.pq, i) = None
    /\ item(o.pq, 0) = None
    /\ _is_min_heap_ordered(o, 1)

\* assert cond: raises only when Python runs with asserts on
AssertFails(cond) == debug /\ ~cond

\* ---- MinPQ operations --------------------------------------------------
Result(o, exc, ret) == [obj |-> o, exc |-> exc, ret |-> ret]

NoArg == [kind |-> "none", cap |-> 0, keys |-> <<>>]
CapArg(c) == [kind |-> "int", cap |-> c, keys |-> <<>>]
KeysArg(ks) == [kind |-> "keys", cap |-> 0, keys |-> ks]

\* __init__(init_capacity_or_keys, comparator)
MinPQ_init(a, comparator) ==
    LET init_capacity == IF a.kind = "int" THEN a.cap ELSE 1
        empty == [pq |-> NoneList(init_capacity + 1), n |-> 0,
                  comparator |-> comparator]
        \* pq[i+1] = keys[i]; then _sink(k) for k = n//2 .. 1, each a no-op
        loaded == [pq |-> <<None>> \o a.keys, n |-> Len(a.keys),
                   comparator |-> comparator]
        RECURSIVE sinkAll(_, _)
        sinkAll(o, k) == IF k < 1 THEN o ELSE sinkAll(_sink(o, k), k - 1)
        heaped == sinkAll(loaded, loaded.n \div 2)
    IN  IF a.kind # "keys" THEN Result(empty, "none", None)
        ELSE IF AssertFails(_is_min_heap(heaped))
             THEN Result(heaped, "AssertionError", None)
             ELSE Result(heaped, "none", None)

is_empty(o) == o.n = 0

size(o) == o.n

\* min() without its emptiness test
min_unguarded(o) ==
    IF len(o.pq) > 1 THEN Result(o, "none", item(o.pq, 1))
    ELSE Result(o, "IndexError", None)

\* min()
min(o) ==
    IF is_empty(o) THEN Result(o, "ValueError", None)
    ELSE Result(o, "none", item(o.pq, 1))

\* _resize(capacity)
_resize(o, capacity) ==
    IF AssertFails(capacity > o.n) THEN Result(o, "AssertionError", None)
    ELSE IF o.n >= capacity /\ o.n >= 1
         THEN Result(o, "IndexError", None)   \* temp[i] out of range
         ELSE Result([o EXCEPT !.pq = [i \in 1..capacity |->
                          IF 1 <= i - 1 /\ i - 1 <= o.n
                          THEN item(o.pq, i - 1) ELSE None]],
                     "none", None)

\* insert(x) without the doubling of a full list: pq[n] = x past the end
\* raises IndexError after n was incremented
insert_no_resize(o, x) ==
    LET o1 == [o EXCEPT !.n = o.n + 1]
        o2 == [o1 EXCEPT !.pq = setitem(o1.pq, o1.n, x)]
        o3 == _swim(o2, o2.n)
    IN  IF o1.n > len(o1.pq) - 1 THEN Result(o1, "IndexError", None)
        ELSE IF AssertFails(_is_min_heap(o3))
             THEN Result(o3, "AssertionError", None)
             ELSE Result(o3, "none", None)

\* insert(x) growing a full list by one slot: _resize(len(pq) + 1)
insert_grow_by_one(o, x) ==
    LET grown == IF o.n = len(o.pq) - 1
                 THEN _resize(o, len(o.pq) + 1)
                 ELSE Result(o, "none", None)
        o1 == grown.obj
        o2 == [o1 EXCEPT !.n = o1.n + 1, !.pq = setitem(o1.pq, o1.n + 1, x)]
        o3 == _swim(o2, o2.n)
    IN  IF grown.exc # "none" THEN grown
        ELSE IF AssertFails(_is_min_heap(o3))
             THEN Result(o3, "AssertionError", None)
             ELSE Result(o3, "none", None)

\* insert(x)
insert(o, x) ==
    LET grown == IF o.n = len(o.pq) - 1
                 THEN _resize(o, 2 * len(o.pq))
                 ELSE Result(o, "none", None)
        o1 == grown.obj
        o2 == [o1 EXCEPT !.n = o1.n + 1, !.pq = setitem(o1.pq, o1.n + 1, x)]
        o3 == _swim(o2, o2.n)
    IN  IF grown.exc # "none" THEN grown
        ELSE IF AssertFails(_is_min_heap(o3))
             THEN Result(o3, "AssertionError", None)
             ELSE Result(o3, "none", None)

\* del_min() without the halving of lines 137-138
del_min_no_shrink(o) ==
    IF is_empty(o) THEN Result(o, "ValueError", None)
    ELSE
    LET min_element == item(o.pq, 1)
        o1 == _exch(o, 1, o.n)
        o2 == [o1 EXCEPT !.n = o1.n - 1]
        o3 == _sink(o2, 1)
        o4 == [o3 EXCEPT !.pq = setitem(o3.pq, o3.n + 1, None)]
    IN  IF AssertFails(_is_min_heap(o4))
        THEN Result(o4, "AssertionError", None)
        ELSE Result(o4, "none", min_element)

\* del_min() halving eagerly, at half full: n == (len(pq) - 1) // 2
del_min_eager_shrink(o) ==
    IF is_empty(o) THEN Result(o, "ValueError", None)
    ELSE
    LET min_element == item(o.pq, 1)
        o1 == _exch(o, 1, o.n)
        o2 == [o1 EXCEPT !.n = o1.n - 1]
        o3 == _sink(o2, 1)
        o4 == [o3 EXCEPT !.pq = setitem(o3.pq, o3.n + 1, None)]
        shrunk == IF o4.n > 0 /\ o4.n = (len(o4.pq) - 1) \div 2
                  THEN _resize(o4, len(o4.pq) \div 2)
                  ELSE Result(o4, "none", None)
    IN  IF shrunk.exc # "none" THEN shrunk
        ELSE IF AssertFails(_is_min_heap(shrunk.obj))
             THEN Result(shrunk.obj, "AssertionError", None)
             ELSE Result(shrunk.obj, "none", min_element)

\* del_min() without line 136: the vacated slot keeps its key
del_min_loitering(o) ==
    IF is_empty(o) THEN Result(o, "ValueError", None)
    ELSE
    LET min_element == item(o.pq, 1)
        o1 == _exch(o, 1, o.n)
        o2 == [o1 EXCEPT !.n = o1.n - 1]
        o3 == _sink(o2, 1)
        shrunk == IF o3.n > 0 /\ o3.n = (len(o3.pq) - 1) \div 4
                  THEN _resize(o3, len(o3.pq) \div 2)
                  ELSE Result(o3, "none", None)
    IN  IF shrunk.exc # "none" THEN shrunk
        ELSE IF AssertFails(_is_min_heap(shrunk.obj))
             THEN Result(shrunk.obj, "AssertionError", None)
             ELSE Result(shrunk.obj, "none", min_element)

\* del_min() shrinking a quarter-full list to a quarter: _resize(len(pq) // 4)
del_min_shrink_to_quarter(o) ==
    IF is_empty(o) THEN Result(o, "ValueError", None)
    ELSE
    LET min_element == item(o.pq, 1)
        o1 == _exch(o, 1, o.n)
        o2 == [o1 EXCEPT !.n = o1.n - 1]
        o3 == _sink(o2, 1)
        o4 == [o3 EXCEPT !.pq = setitem(o3.pq, o3.n + 1, None)]
        shrunk == IF o4.n > 0 /\ o4.n = (len(o4.pq) - 1) \div 4
                  THEN _resize(o4, len(o4.pq) \div 4)
                  ELSE Result(o4, "none", None)
    IN  IF shrunk.exc # "none" THEN shrunk
        ELSE IF AssertFails(_is_min_heap(shrunk.obj))
             THEN Result(shrunk.obj, "AssertionError", None)
             ELSE Result(shrunk.obj, "none", min_element)

\* del_min() testing for underflow after `self.n -= 1`
del_min_late_underflow(o) ==
    IF is_empty(o)
    THEN Result([o EXCEPT !.n = o.n - 1], "ValueError", None)
    ELSE
    LET min_element == item(o.pq, 1)
        o1 == _exch(o, 1, o.n)
        o2 == [o1 EXCEPT !.n = o1.n - 1]
        o3 == _sink(o2, 1)
        o4 == [o3 EXCEPT !.pq = setitem(o3.pq, o3.n + 1, None)]
        shrunk == IF o4.n > 0 /\ o4.n = (len(o4.pq) - 1) \div 4
                  THEN _resize(o4, len(o4.pq) \div 2)
                  ELSE Result(o4, "none", None)
    IN  IF shrunk.exc # "none" THEN shrunk
        ELSE IF AssertFails(_is_min_heap(shrunk.obj))
             THEN Result(shrunk.obj, "AssertionError", None)
             ELSE Result(shrunk.obj, "none", min_element)

\* del_min()
del_min(o) ==
    IF is_empty(o) THEN Result(o, "ValueError", None)
    ELSE
    LET min_element == item(o.pq, 1)
        o1 == _exch(o, 1, o.n)
        o2 == [o1 EXCEPT !.n = o1.n - 1]
        o3 == _sink(o2, 1)
        o4 == [o3 EXCEPT !.pq = setitem(o3.pq, o3.n + 1, None)]
        shrunk == IF o4.n > 0 /\ o4.n = (len(o4.pq) - 1) \div 4
                  THEN _resize(o4, len(o4.pq) \div 2)
                  ELSE Result(o4, "none", None)
    IN  IF shrunk.exc # "none" THEN shrunk
        ELSE IF AssertFails(_is_min_heap(shrunk.obj))
             THEN Result(shrunk.obj, "AssertionError", None)
             ELSE Result(shrunk.obj, "none", min_element)

\* ---- HeapIterator -------------------------------------------------------
\* HeapIterator.__init__(pq) keeping pq itself: self.copy = pq
HeapIterator_init_alias(s, pqid) ==
    [store |-> s, copy |-> pqid, exc |-> "none"]

\* HeapIterator.__init__(pq): a new MinPQ of capacity pq.size() with pq's
\* comparator, filled by insert from pq.pq[1..n]; s is the object store and
\* pqid the queue iterated.
HeapIterator_init(s, pqid) ==
    LET src == s[pqid]
        new == MinPQ_init(CapArg(size(src)), src.comparator).obj
        RECURSIVE fill(_, _)
        fill(c, i) ==
            IF i > src.n THEN Result(c, "none", None)
            ELSE LET r == insert(c, item(src.pq, i))
                 IN  IF r.exc # "none" THEN r ELSE fill(r.obj, i + 1)
        filled == fill(new, 1)
    IN  [store |-> (Fresh :> filled.obj) @@ s, copy |-> Fresh,
         exc |-> filled.exc]

\* HeapIterator.__next__()
HeapIterator_next(s, itr) ==
    LET c == s[itr.copy]
        r == del_min(c)
    IN  IF is_empty(c)
        THEN [store |-> s, exc |-> "StopIteration", ret |-> None]
        ELSE [store |-> [s EXCEPT ![itr.copy] = r.obj], exc |-> r.exc,
              ret |-> r.ret]

\* ---- helpers of the state machine --------------------------------------
\* the live keys pq[1..n] as a sequence
Live(o) == [i \in 1..o.n |-> item(o.pq, i)]

\* what repeated next() produces from a queue nobody else touches
RECURSIVE Drain(_)
Drain(o) ==
    IF is_empty(o) THEN <<>>
    ELSE LET r == del_min(o)
         IN  <<IF r.exc = "none" THEN r.ret ELSE Raised>> \o Drain(r.obj)

Call(op, arg, exc, ret) == [op |-> op, arg |-> arg, exc |-> exc, ret |-> ret]

KeyLists(m) == UNION {[1..l -> Keys] : l \in 0..m}
Args(m) == {NoArg} \cup {CapArg(c) : c \in 0..m}
                  \cup {KeysArg(ks) : ks \in KeyLists(m)}

\* a constructor that raised left no object to call
Constructed == ~(last.op = "__init__" /\ last.exc # "none")

Q == store[Main]

\* what a call did to the length of pq: o before the call, o2 after it
Resize(o, o2) ==
    IF len(o2.pq) > len(o.pq) THEN "doubled"
    ELSE IF len(o2.pq) < len(o.pq) THEN "halved"
    ELSE "none"

\* ---- the state machine -------------------------------------------------
\* MinPQ(a, comparator) for a constructor argument of size at most m
Construct(m) ==
    /\ debug \in BOOLEAN
    /\ \E a \in Args(m), comparator \in Comparators :
         LET r == MinPQ_init(a, comparator)
         IN  /\ store = (Main :> r.obj)
             /\ last = Call("__init__", a, r.exc, None)
             /\ expected = IF r.exc = "none" THEN size(r.obj) ELSE 0
             /\ empty0 = (r.exc = "none" /\ is_empty(r.obj))
    /\ it = [copy |-> NoCopy]
    /\ phase = "new"
    /\ resized = "none"

Init == Construct(MaxSize)

InsertCall(x) ==
    LET r == insert(Q, x)
    IN  /\ store' = [store EXCEPT ![Main] = r.obj]
        /\ last' = Call("insert", x, r.exc, r.ret)

DelMinCall ==
    LET r == del_min(Q)
    IN  /\ store' = [store EXCEPT ![Main] = r.obj]
        /\ last' = Call("del_min", None, r.exc, r.ret)

Insert ==
    /\ Constructed
    /\ expected < MaxSize
    /\ \E x \in Keys : InsertCall(x)
    /\ phase' = IF phase = "ins" \/ (phase = "new" /\ empty0)
                THEN "ins" ELSE "other"
    /\ expected' = expected + 1
    /\ resized' = Resize(Q, store'[Main])
    /\ UNCHANGED <<it, debug, empty0>>

DelMin ==
    /\ Constructed
    /\ DelMinCall
    /\ phase' = IF last'.exc = "ValueError" \/ phase = "other" THEN phase
                ELSE IF phase \in {"ins", "ext"} THEN "ext" ELSE "ext0"
    /\ expected' = IF last'.exc = "none" THEN expected - 1 ELSE expected
    /\ resized' = Resize(Q, store'[Main])
    /\ UNCHANGED <<it, debug, empty0>>

Min ==
    /\ Constructed
    /\ LET r == min(Q)
       IN  /\ store' = [store EXCEPT ![Main] = r.obj]
           /\ last' = Call("min", None, r.exc, r.ret)
    /\ UNCHANGED <<it, debug, phase, expected, empty0, resized>>

Next ==
    \/ Insert
    \/ DelMin
    \/ Min

Spec == Init /\ [][Next]_vars

\* ---- the queue with an iterator beside it -------------------------------
\* The calls of Spec without its history, and iter() and next().
InitIter == Construct(MaxIterSize)

InsertI ==
    /\ Constructed
    /\ size(Q) < MaxIterSize
    /\ \E x \in Keys : InsertCall(x)
    /\ UNCHANGED <<it, debug, phase, expected, empty0, resized>>

DelMinI ==
    /\ Constructed
    /\ DelMinCall
    /\ UNCHANGED <<it, debug, phase, expected, empty0, resized>>

\* iter(pq): a HeapIterator, or the exception its constructor raised
Iter ==
    /\ Constructed
    /\ LET r == HeapIterator_init(store, Main)
       IN  /\ last' = Call("iter", None, r.exc, None)
           /\ IF r.exc = "none"
              THEN store' = r.store /\ it' = [copy |-> r.copy]
              ELSE UNCHANGED <<store, it>>
    /\ UNCHANGED <<debug, phase, expected, empty0, resized>>

\* next(iterator)
Next_ ==
    /\ Constructed
    /\ it.copy # NoCopy
    /\ LET r == HeapIterator_next(store, it)
       IN  /\ store' = r.store
           /\ last' = Call("next", None, r.exc, r.ret)
    /\ UNCHANGED <<it, debug, phase, expected, empty0, resized>>

NextIter ==
    \/ InsertI
    \/ DelMinI
    \/ Iter
    \/ Next_

SpecIter == InitIter /\ [][NextIter]_vars

\* ---- properties ---------------------------------------------------------
\* a comes after b in the ordering of comparator c
After(c, a, b) == IF c = "None" THEN a > b ELSE reverse_comparator(a, b) > 0

HeapOrdered(o) ==
    \A k \in 1..o.n :
        /\ 2 * k <= o.n => ~After(o.comparator, item(o.pq, k), item(o.pq, 2 * k))
        /\ 2 * k + 1 <= o.n
             => ~After(o.comparator, item(o.pq, k), item(o.pq, 2 * k + 1))

NonDecreasing(c, seq) ==
    \A i \in 1..(Len(seq) - 1) : ~After(c, seq[i], seq[i + 1])

Count(seq, v) == Cardinality({i \in DOMAIN seq : seq[i] = v})

SameBag(s, t) == \A v \in Keys \cup {Raised, None} : Count(s, v) = Count(t, v)

Returned(c) == c.exc = "none"

\* C1: after the constructor and after every insert and del_min that
\* completed, every live key is not greater than its children at 2k and 2k+1.
C1_HeapOrder ==
    (last.op \in {"__init__", "insert", "del_min"} /\ Returned(last))
        => HeapOrdered(Q)

\* C2: inserts on an empty queue followed by del_min until it is empty return
\* keys in non-decreasing order of the active ordering: each del_min of the
\* run returns a key not less than the del_min before it.
C2_ExtractOrder ==
    [][(phase' = "ext" /\ last.op = "del_min" /\ Returned(last)
          /\ last'.op = "del_min" /\ Returned(last'))
         => ~After(Q.comparator, last.ret, last'.ret)]_vars

\* C3: min() and del_min() on an empty queue raise ValueError and return
\* nothing, on a new queue and on one emptied by inserts and extracts.
C3_Underflow ==
    [][(last'.op \in {"min", "del_min"} /\ is_empty(Q))
          => (last'.exc = "ValueError" /\ last'.ret = None)]_vars

C3_Witness ==
    /\ last.op \in {"min", "del_min"}
    /\ last.exc = "ValueError"
    /\ phase = "ext"

\* C4: on a queue constructed empty, size() is the number of insert calls
\* minus the number of del_min calls that returned, and is_empty() is true
\* exactly when size() is 0.
C4_SizeCount ==
    empty0
        => /\ size(Q) = expected
           /\ is_empty(Q) <=> (size(Q) = 0)

\* C5: on a non-empty queue min() returns a key not greater than any live
\* key, and leaves n and the storage as they were.
C5_MinIsLeast ==
    /\ []((last.op = "min" /\ Returned(last))
            => \A i \in 1..Q.n : ~After(Q.comparator, last.ret, item(Q.pq, i)))
    /\ [][last'.op = "min" => store' = store]_vars

\* C6: constructing from a list of keys gives a queue holding exactly those
\* keys, n of them, in heap order, and del_min until empty returns them in
\* ascending order.
C6_FromKeys ==
    /\ []((last.op = "__init__" /\ last.arg.kind = "keys")
            => /\ Returned(last)
               /\ size(Q) = Len(last.arg.keys)
               /\ SameBag(Live(Q), last.arg.keys)
               /\ HeapOrdered(Q))
    /\ [][(phase' = "ext0" /\ last.op = "del_min" /\ Returned(last)
             /\ last'.op = "del_min" /\ Returned(last'))
            => ~After(Q.comparator, last.ret, last'.ret)]_vars

\* C7: with a comparator every ordering decision uses it: del_min returns a
\* key that is least by the comparator among the keys the queue held.
C7_Comparator ==
    (Q.comparator = "reverse_comparator" /\ last.op = "del_min"
       /\ Returned(last))
        => \A i \in 1..Q.n : reverse_comparator(last.ret, item(Q.pq, i)) <= 0

\* C8: iterating a queue of n keys produces exactly those n keys in ascending
\* order and then raises StopIteration on request n + 1: iter() returns an
\* iterator whose next() calls yield the live keys ascending, and each next()
\* returns a key not less than the next() before it.
C8_Iteration ==
    [][/\ last'.op = "iter"
          => /\ Returned(last')
             /\ Len(Drain(store'[it'.copy])) = size(Q)
             /\ SameBag(Drain(store'[it'.copy]), Live(Q))
             /\ NonDecreasing(Q.comparator, Drain(store'[it'.copy]))
       /\ (last.op = "next" /\ Returned(last) /\ last'.op = "next"
             /\ Returned(last'))
          => ~After(Q.comparator, last.ret, last'.ret)]_vars

\* what a call handed to its caller, as Drain writes it
Produced(c) == IF Returned(c) THEN c.ret ELSE Raised

\* C9: making an iterator and advancing it leaves the queue's n and storage
\* as they were, and insert and del_min on the queue after the iterator was
\* made, interleaved with next(), do not change what the iterator produces:
\* every next() hands out the head of what the copy held for it, and no call
\* on the queue changes what the copy holds.
C9_Snapshot ==
    [][/\ last'.op \in {"iter", "next"} => store'[Main] = store[Main]
       /\ (last'.op \in {"insert", "del_min"} /\ it.copy # NoCopy)
          => /\ it' = it
             /\ Drain(store'[it.copy]) = Drain(store[it.copy])
       /\ last'.op = "next"
          => IF Drain(store[it.copy]) = <<>>
             THEN last'.exc = "StopIteration"
             ELSE /\ Produced(last') = Head(Drain(store[it.copy]))
                  /\ Drain(store'[it.copy]) = Tail(Drain(store[it.copy]))]_vars

\* The iterator has been advanced (its copy, made full, no longer is), the
\* queue was changed by the last call, and the iterator has keys left.
C9_Witness ==
    /\ it.copy # NoCopy
    /\ store[it.copy].n < len(store[it.copy].pq) - 1
    /\ last.op \in {"insert", "del_min"}
    /\ Returned(last)
    /\ Drain(store[it.copy]) # <<>>
    /\ Live(Q) # Live(store[it.copy])

\* C10: insert raises nothing, the assertion on the heap included, on any
\* queue reached by construction, insert and del_min; nor does the
\* constructor given a list of keys.
C10_InsertNeverFails ==
    last.op \in {"insert", "__init__"} => Returned(last)

\* the keys a del_min call handed back: one if it returned, none if it raised
Handed(c) == IF Returned(c) THEN <<c.ret>> ELSE <<>>

\* C11: no live key is lost or duplicated, resizes included: the keys in
\* slots 1..n are the keys loaded by the constructor, every insert adds
\* exactly its key to them, and every del_min takes away exactly the key it
\* returned (nothing when it returned none).
C11_Conservation ==
    /\ []((last.op = "__init__" /\ Returned(last))
            => SameBag(Live(Q), last.arg.keys))
    /\ [][/\ last'.op = "insert"
             => SameBag(Live(store'[Main]), Append(Live(Q), last'.arg))
          /\ last'.op = "del_min"
             => SameBag(Live(Q), Live(store'[Main]) \o Handed(last'))]_vars

\* C12: in every state reached from a construction (default, a capacity
\* c >= 0, or a list of keys) by insert and del_min, 0 <= n < capacity,
\* where the capacity is the length of the list pq.
C12_Capacity ==
    /\ 0 <= Q.n
    /\ Q.n < len(Q.pq)

\* A del_min has just halved the list down to a full one: n = capacity - 1.
C12_Witness ==
    /\ last.op = "del_min"
    /\ Returned(last)
    /\ Q.n > 0
    /\ Q.n = len(Q.pq) - 1

\* the step is a del_min call on a queue that held a key
Extracts == last'.op = "del_min" /\ ~is_empty(Q)

\* the step replaced the list by one of half its length
Halved == /\ len(store'[Main].pq) = len(Q.pq) \div 2
          /\ len(store'[Main].pq) # len(Q.pq)

\* the step left the length of the list as it was
SameCapacity == len(store'[Main].pq) = len(Q.pq)

\* C13 as stated: del_min halves the capacity if and only if the new n is
\* nonzero and exactly one quarter of the capacity, and otherwise leaves the
\* capacity unchanged; the capacity read as the length of the list or as
\* the number of its usable slots, whichever suits the step.
C13_QuarterExactly ==
    [][Extracts
         => /\ Halved \/ SameCapacity
            /\ \/ Halved <=> (Q.n - 1 > 0 /\ 4 * (Q.n - 1) = len(Q.pq))
               \/ Halved <=> (Q.n - 1 > 0 /\ 4 * (Q.n - 1) = len(Q.pq) - 1)]_vars

\* C13: del_min replaces the list by one of length len(pq) // 2 if and only
\* if the new n is nonzero and equals (len(pq) - 1) // 4, the quotient
\* rounded down; in every other case the length of the list is unchanged.
C13_ShrinkRule ==
    [][Extracts
         => IF Q.n - 1 > 0 /\ Q.n - 1 = (len(Q.pq) - 1) \div 4
            THEN Halved
            ELSE SameCapacity]_vars

\* A run of del_min calls on a queue built from keys has halved the list:
\* one key left in a list of length 2.
C13_Witness ==
    /\ phase = "ext0"
    /\ last.op = "del_min"
    /\ size(Q) = 1
    /\ len(Q.pq) = 2

\* C14: insert doubles the length of the list if and only if the list is
\* full (n = len(pq) - 1 before the call) and otherwise leaves the length
\* unchanged; in both cases n grows by one and the new key is stored at
\* index n + 1 (_swim, which runs next, moves nothing in this code).
C14_GrowthRule ==
    [][last'.op = "insert"
         => /\ IF Q.n = len(Q.pq) - 1
               THEN len(store'[Main].pq) = 2 * len(Q.pq)
               ELSE SameCapacity
            /\ store'[Main].n = Q.n + 1
            /\ item(store'[Main].pq, Q.n + 1) = last'.arg]_vars

\* Inserts alone, on a queue constructed empty, have grown the list to
\* length 8: the list of length 4 was full when the fourth key arrived.
C14_Witness ==
    /\ phase = "ins"
    /\ last.op = "insert"
    /\ size(Q) = 4
    /\ len(Q.pq) = 8

\* the call before this step was a del_min that halved the list
AfterHalving == last.op = "del_min" /\ resized = "halved"

\* the call before this step was an insert that doubled the list
AfterDoubling == last.op = "insert" /\ resized = "doubled"

\* C15 as stated: for every construction, a del_min that halves the list is
\* never immediately followed by an insert that doubles it, and an insert
\* that doubles it is never immediately followed by a del_min that halves it.
C15_NoThrashing ==
    [][/\ (AfterHalving /\ last'.op = "insert") => resized' # "doubled"
       /\ (AfterDoubling /\ last'.op = "del_min") => resized' # "halved"]_vars

\* C15: an insert that doubles the list is never immediately followed by a
\* del_min that halves it; a del_min that halves the list is immediately
\* followed by an insert that doubles it only when it halved a list of
\* length 5, leaving one key in a list of length 2.
C15_ThrashOnlyAtFive ==
    [][/\ (AfterHalving /\ last'.op = "insert" /\ resized' = "doubled")
          => (size(Q) = 1 /\ len(Q.pq) = 2)
       /\ (AfterDoubling /\ last'.op = "del_min") => resized' # "halved"]_vars

\* A del_min has halved the list and left it full, so that the next insert
\* doubles it again.
C15_Witness ==
    /\ AfterHalving
    /\ size(Q) = len(Q.pq) - 1

\* slots 1..n hold keys, the slots after n and slot 0 hold None
Populated(o) ==
    /\ \A i \in 1..o.n : item(o.pq, i) # None
    /\ \A i \in (o.n + 1)..(len(o.pq) - 1) : item(o.pq, i) = None
    /\ item(o.pq, 0) = None

\* C16: after the constructor and after every insert and del_min that
\* completed, slots 1..n hold keys, every slot after n is None and slot 0 is
\* None; del_min leaves None in the slot its last key was moved out of,
\* where the list still has that slot.
C16_SlotPopulation ==
    /\ []((last.op \in {"__init__", "insert", "del_min"} /\ Returned(last))
            => Populated(Q))
    /\ [][(Extracts /\ Returned(last') /\ Q.n < len(store'[Main].pq))
            => item(store'[Main].pq, Q.n) = None]_vars

\* A del_min returned and left more than one key, with a free slot after
\* them in a list it did not halve: the slot it vacated is still there.
C16_Witness ==
    /\ last.op = "del_min"
    /\ Returned(last)
    /\ resized = "none"
    /\ size(Q) > 1
    /\ size(Q) < len(Q.pq) - 1

\* C17: every _resize call is made with a capacity greater than n: when
\* insert finds the list full it asks for 2 * len(pq) > n, when del_min
\* finds it a quarter full it asks for len(pq) // 2 > n, and the call is
\* carried out (the list has the length asked for afterwards); no call dies
\* on the assertion of _resize or, with asserts off, on an index past the
\* end of the new list.
C17_ResizePrecondition ==
    [][/\ (last'.op = "insert" /\ Q.n = len(Q.pq) - 1)
          => /\ 2 * len(Q.pq) > Q.n
             /\ len(store'[Main].pq) = 2 * len(Q.pq)
       /\ (Extracts /\ Q.n - 1 > 0 /\ Q.n - 1 = (len(Q.pq) - 1) \div 4)
          => /\ len(Q.pq) \div 2 > Q.n - 1
             /\ len(store'[Main].pq) = len(Q.pq) \div 2
       /\ last'.exc # "IndexError"]_vars

\* The first insert on a queue of capacity 0 has doubled a list of length 1.
C17_Witness ==
    /\ AfterDoubling
    /\ len(Q.pq) = 2

\* C18: a min() or del_min() that fails on an empty queue changes nothing:
\* n stays 0 and pq is the same list, of the same length, so that insert of
\* any key does afterwards what it would have done before the failed call.
C18_FailedCallNoEffect ==
    [][(last'.op \in {"min", "del_min"} /\ last'.exc = "ValueError")
         => /\ is_empty(Q)
            /\ store'[Main].n = 0
            /\ store'[Main].pq = Q.pq
            /\ store' = store
            /\ \A x \in Keys : insert(store'[Main], x) = insert(Q, x)]_vars

\* A queue built from keys was emptied, and the call after that failed.
C18_Witness ==
    /\ last.op \in {"min", "del_min"}
    /\ last.exc = "ValueError"
    /\ ~empty0
    /\ len(Q.pq) > 2

====
